---- MODULE Spec2Model ----
(***************************************************************************)
(* ChatTTSModel (modules/core/models/tts/ChatTtsModel.py): the segment     *)
(* batch generator with its result cache, streaming generator, interrupt   *)
(* and reference-transcript preparation.                                   *)
(*                                                                         *)
(* Encoding of Python values:                                              *)
(*   None            <<>>           Some(x)   <<x>>                        *)
(*   audio array     sequence of samples (np.empty(0) is <<>>)             *)
(*   backend data    Some(<<ch0, ch1>>), a two-channel array, or None      *)
(*   NP_AUDIO        <<sr, samples>>                                       *)
(*   str             sequence of one-character strings                     *)
(***************************************************************************)
EXTENDS Integers, Sequences, FiniteSets, TLC

VARIABLES chat, current_infer, cache, gens, calls, last, fail, ref, txt_smp,
          rng, scopes, crossed, inp, outp

vars == <<chat, current_infer, cache, gens, calls, last, fail, ref, txt_smp,
          rng, scopes, crossed, inp, outp>>

\* ---------------------------------------------------------------- bounds
NumKeys == 2      \* distinct (segments, context) requests
MaxSegs == 3      \* largest batch
MaxWave == 3      \* longest per-segment audio, in samples
MaxChunk == 2     \* largest stream_chunk_size
MaxGens == 2      \* generate calls that create an operation or a generator
MaxTxt == 3       \* longest reference transcript, in characters
MaxPrompt == 2    \* longest content prompt (prompt2), in characters
MaxList == 3      \* longest parsed SSML segment list
MaxSegText == 2   \* longest text of one SSML segment, in characters
MaxTotal == 3     \* largest total_max (webui_config.ssml_max)

\* ------------------------------------------------------- option encoding
None == <<>>
Some(x) == <<x>>
IsNone(o) == Len(o) = 0
Val(o) == o[1]

Max(a, b) == IF a >= b THEN a ELSE b
Min(a, b) == IF a <= b THEN a ELSE b

\* ------------------------------------------------ requests (cache keys)
Keys == 1..NumKeys
\* number of segments of the batch behind key k (never empty: precondition)
NSegs(k) == 1 + ((k + 1) % MaxSegs)
Segs(k) == 1..NSegs(k)
\* context.infer_config.stream_chunk_size of the request behind key k
chunk_size(k) == 1 + (k % MaxChunk)
\* length of the audio the backend produces for segment i of key k (>= 1)
WaveLen(k, i) == 1 + ((k + i) % MaxWave)

\* np.concatenate([before, data], axis=0)
concatenate(before, data) == before \o data

\* --------------------------------------------- inference backend (ChatTTSInfer)
\* primary and secondary channel of the audio of segment i of key k
Wave(k, i) == [j \in 1..WaveLen(k, i) |-> 100 * k + 10 * i + j]
Wave2(k, i) == [j \in 1..WaveLen(k, i) |-> 0 - (100 * k + 10 * i + j)]

\* infer.generate_audio: one entry per text, None for a failed slot
generate_audio(k, F) ==
    [i \in Segs(k) |-> IF i \in F THEN None ELSE Some(<<Wave(k, i), Wave2(k, i)>>)]

\* chunks needed for n samples
NChunks(n, c) == (n + c - 1) \div c

RECURSIVE MaxChunks(_, _, _)
MaxChunks(k, F, i) ==
    IF i = 0 THEN 1
    ELSE Max(MaxChunks(k, F, i - 1), IF i \in F THEN 1 ELSE NChunks(WaveLen(k, i), chunk_size(k)))

\* number of partial batches an uninterrupted stream yields
StreamSteps(k, F) == MaxChunks(k, F, NSegs(k))

Chunk(w, s, c) == SubSeq(w, (s - 1) * c + 1, Min(s * c, Len(w)))

\* infer.generate_audio_stream: the s-th partial batch. A finished segment
\* gives an array of size 0, a failed one gives None.
generate_audio_stream(k, F, s) ==
    [i \in Segs(k) |->
        IF i \in F THEN None
        ELSE Some(<<Chunk(Wave(k, i), s, chunk_size(k)), Chunk(Wave2(k, i), s, chunk_size(k))>>)]

\* ndarray.size of a two-channel array
Size(d) == Len(d[1]) + Len(d[2])

\* ------------------------------------------------------ generate_batch_base
sr == 24000

\* lines 152-156: one NP_AUDIO per backend result
NonStreamConvBadChannel(data) == IF IsNone(data) THEN <<sr, <<>>>> ELSE <<sr, Val(data)[2]>>
NonStreamConv(data) == IF IsNone(data) THEN <<sr, <<>>>> ELSE <<sr, Val(data)[1]>>

NonStreamResult(k, F) == [i \in Segs(k) |-> NonStreamConv(generate_audio(k, F)[i])]

\* lines 178-187: failure sentinel and size 0 become np.empty(0), else data[0]
StreamConvBadChannel(data) ==
    IF IsNone(data) THEN <<>> ELSE IF Size(Val(data)) = 0 THEN <<>> ELSE Val(data)[2]
StreamConv(data) ==
    IF IsNone(data) THEN <<>> ELSE IF Size(Val(data)) = 0 THEN <<>> ELSE Val(data)[1]

\* line 188
AudioArr(results) == [i \in 1..Len(results) |-> <<sr, results[i]>>]

\* lines 191-197: the running buffer after the partial batch audio_arr
Accumulate(buff, audio_arr) ==
    IF IsNone(buff) THEN Some(audio_arr)
    ELSE Some([i \in 1..Len(audio_arr) |->
                  <<Val(buff)[i][1], concatenate(Val(buff)[i][2], audio_arr[i][2])>>])

\* ------------------------------------------------------- seed-scoped execution
\* the global random state before any seed scope
InitialRng == 0
\* line 123: seed = seg0.infer_seed of the batch behind key k
infer_seed(k) == k
\* SeedContext: the random state a seed establishes
Seeded(seed) == 10 * seed
\* the random state after the backend drew from it: the stream has left the
\* position the seed (or the ambient state) put it at
Advance(r) == IF r % 10 = 0 THEN r + 1 ELSE r

\* lines 139 and 164: the random state inside the with block, entered from the
\* ambient state
ScopeRngAmbient(seed, ambient) == ambient
ScopeRng(seed, ambient) == Seeded(seed)

\* leaving the with block of lines 139-159 and 164-197 (normally, by an
\* exception or by GeneratorExit): the state saved on entry is restored
LeaveRngKeep(saved, r) == r
LeaveRng(saved, r) == saved

\* the open scopes without n
RECURSIVE Without(_, _)
Without(sc, n) ==
    IF Len(sc) = 0 THEN <<>>
    ELSE IF sc[Len(sc)] = n THEN Without(SubSeq(sc, 1, Len(sc) - 1), n)
    ELSE Append(Without(SubSeq(sc, 1, Len(sc) - 1), n), sc[Len(sc)])

\* n's scope is left while a scope entered later is still open
Crosses(sc, n) == Len(sc) > 0 /\ sc[Len(sc)] # n /\ \E i \in 1..Len(sc) : sc[i] = n

\* ------------------------------------------------------------ result cache
\* TTSModel.get_cache / set_cache: a memoizer keyed by the request; it stores
\* whatever value it is handed and hands back what it stored.
get_cache(c, k) == IF IsNone(c[k]) THEN None ELSE Val(c[k])
set_cache(c, k, value) == [c EXCEPT ![k] = Some(value)]

\* --------------------------------------------------------------- state
\* chat           self.chat is not None
\* current_infer  index in gens of self.current_infer, 0 for None
\* cache          per key: None (no entry) or Some(value handed to set_cache)
\* gens           one record per operation or generator that generate created:
\*                kind "batch" (non-streaming miss), "stream" (streaming miss),
\*                "hit" (the one-item generator of a streaming hit)
\* calls          invocations of generate_audio / generate_audio_stream
\* last           the latest call and its outcome
\* fail           the slots for which the backend reports failure (Fail)
\* ref, txt_smp   reference-transcript preparation (PrepSpec)
\* rng            the global random state
\* scopes         the generators whose seed scope is open, in order of entry
\* crossed        some seed scope was left while a later one was still open
\* inp, outp       input and result of the single-call specifications
\* the failed slots of the batch behind key k
Fail(k) == fail \cap Segs(k)

NoCall == [op |-> "none", key |-> 0, stream |-> FALSE, hit |-> FALSE, gen |-> 0,
           ret |-> None, err |-> "none"]

NewGen(k, kind, pc, buff, written) ==
    [key |-> k, kind |-> kind, pc |-> pc, flag |-> FALSE, intr |-> FALSE, steps |-> 0,
     buff |-> buff, yielded |-> <<>>, held |-> <<>>, written |-> written, saved |-> None]

Init ==
    /\ chat = FALSE
    /\ current_infer = 0
    /\ cache = [k \in Keys |-> None]
    /\ gens = <<>>
    /\ calls = 0
    /\ last = NoCall
    /\ fail \in SUBSET (1..MaxSegs)
    /\ ref = None
    /\ txt_smp = None
    /\ rng = InitialRng
    /\ scopes = <<>>
    /\ crossed = FALSE
    /\ inp = None
    /\ outp = None

\* a cache hit that takes lines 105-106 before it returns
GenerateHitLoads(k, stream) ==
    LET cached == get_cache(cache, k) IN
    /\ ~IsNone(cached)
    /\ ~stream
    /\ chat' = TRUE
    /\ current_infer' = 0
    /\ last' = [NoCall EXCEPT !.op = "generate", !.key = k, !.hit = TRUE, !.ret = cached]
    /\ UNCHANGED <<gens, cache, calls, fail, ref, txt_smp, inp, outp, rng, scopes, crossed>>

\* lines 95-103: cache hit
GenerateHit(k, stream) ==
    LET cached == get_cache(cache, k) IN
    /\ ~IsNone(cached)
    /\ IF stream
       THEN /\ Len(gens) < MaxGens
            /\ gens' = Append(gens, NewGen(k, "hit", "created", cached, <<>>))
            /\ last' = [NoCall EXCEPT !.op = "generate", !.key = k, !.stream = TRUE,
                                      !.hit = TRUE, !.gen = Len(gens) + 1]
       ELSE /\ gens' = gens
            /\ last' = [NoCall EXCEPT !.op = "generate", !.key = k, !.hit = TRUE,
                                      !.ret = cached]
    /\ UNCHANGED <<chat, current_infer, cache, calls, fail, ref, txt_smp, inp, outp, rng, scopes, crossed>>

\* lines 95, 105-159: cache miss, non-streaming
GenerateBatch(k) ==
    LET audio_arr == NonStreamResult(k, Fail(k)) IN
    /\ IsNone(get_cache(cache, k))
    /\ Len(gens) < MaxGens
    /\ chat' = TRUE
    /\ current_infer' = Len(gens) + 1
    /\ calls' = calls + 1
    /\ cache' = set_cache(cache, k, Some(audio_arr))
    /\ gens' = Append(gens, NewGen(k, "batch", "done", None, <<Some(audio_arr)>>))
    /\ last' = [NoCall EXCEPT !.op = "generate", !.key = k, !.gen = Len(gens) + 1,
                              !.ret = Some(audio_arr)]
    /\ rng' = LeaveRng(rng, Advance(ScopeRng(infer_seed(k), rng)))
    /\ UNCHANGED <<fail, ref, txt_smp, inp, outp, scopes, crossed>>

\* lines 95, 105-136, 160-200: cache miss, streaming; the generator body has
\* not started when generate returns
GenerateStream(k) ==
    /\ IsNone(get_cache(cache, k))
    /\ Len(gens) < MaxGens
    /\ chat' = TRUE
    /\ current_infer' = Len(gens) + 1
    /\ gens' = Append(gens, NewGen(k, "stream", "created", None, <<>>))
    /\ last' = [NoCall EXCEPT !.op = "generate", !.key = k, !.stream = TRUE,
                              !.gen = Len(gens) + 1]
    /\ UNCHANGED <<cache, calls, fail, ref, txt_smp, inp, outp, rng, scopes, crossed>>

\* line 192 binds audio_arr_buff to the list object that was yielded first, so
\* the consumer's first item is the buffer from then on
Alias(held, buff) == IF Len(held) >= 1 /\ ~IsNone(buff) THEN [held EXCEPT ![1] = Val(buff)] ELSE held

\* the backend stream has nothing more to give: every step is done, or the
\* stop signal is observed before the next internal step
StreamExhausted(g) == g.flag \/ g.steps >= StreamSteps(g.key, Fail(g.key))

\* next() on the generator of a streaming miss, lines 162-198
StreamNext(n) ==
    LET g == gens[n]
        k == g.key
        \* lines 191-197, run when the generator resumes after its yield
        buff1 == IF g.pc = "suspended" THEN Accumulate(g.buff, g.yielded[Len(g.yielded)]) ELSE g.buff
        held1 == IF g.pc = "suspended" THEN Alias(g.held, buff1) ELSE g.held
        results == [i \in Segs(k) |-> StreamConv(generate_audio_stream(k, Fail(k), g.steps + 1)[i])]
        audio_arr == AudioArr(results)
        \* line 164, entered when the generator body starts
        saved1 == IF g.pc = "created" THEN Some(rng) ELSE g.saved
        rng1 == IF g.pc = "created" THEN ScopeRng(infer_seed(k), rng) ELSE rng
    IN
    /\ g.kind = "stream"
    /\ g.pc \in {"created", "suspended"}
    /\ calls' = IF g.pc = "created" THEN calls + 1 ELSE calls
    /\ IF StreamExhausted(g)
       THEN /\ gens' = [gens EXCEPT ![n] = [g EXCEPT !.pc = "done", !.buff = buff1, !.held = held1,
                                                     !.written = Append(g.written, buff1),
                                                     !.saved = None]]
            /\ cache' = set_cache(cache, k, buff1)
            /\ rng' = LeaveRng(Val(saved1), rng1)
            /\ scopes' = Without(scopes, n)
            /\ crossed' = (crossed \/ Crosses(scopes, n))
            /\ last' = [NoCall EXCEPT !.op = "next", !.key = k, !.stream = TRUE, !.gen = n]
       ELSE /\ gens' = [gens EXCEPT ![n] = [g EXCEPT !.pc = "suspended", !.buff = buff1,
                                                     !.steps = g.steps + 1,
                                                     !.yielded = Append(g.yielded, audio_arr),
                                                     !.held = Append(held1, audio_arr),
                                                     !.saved = saved1]]
            /\ cache' = cache
            /\ rng' = Advance(rng1)
            /\ scopes' = IF g.pc = "created" THEN Append(scopes, n) ELSE scopes
            /\ crossed' = crossed
            /\ last' = [NoCall EXCEPT !.op = "next", !.key = k, !.stream = TRUE, !.gen = n,
                                      !.ret = Some(audio_arr)]
    /\ UNCHANGED <<chat, current_infer, fail, ref, txt_smp, inp, outp>>

\* a close that runs line 198 with the buffer accumulated so far
CloseWrites(n) ==
    LET g == gens[n] IN
    /\ g.kind \in {"stream", "hit"}
    /\ g.pc \in {"created", "suspended"}
    /\ gens' = [gens EXCEPT ![n] = [g EXCEPT !.pc = "closed", !.saved = None,
                                             !.written = Append(g.written, g.buff)]]
    /\ cache' = set_cache(cache, g.key, g.buff)
    /\ rng' = IF g.kind = "stream" /\ g.pc = "suspended" THEN LeaveRng(Val(g.saved), rng) ELSE rng
    /\ scopes' = Without(scopes, n)
    /\ crossed' = (crossed \/ Crosses(scopes, n))
    /\ last' = [NoCall EXCEPT !.op = "close", !.key = g.key, !.stream = TRUE, !.gen = n,
                              !.hit = (g.kind = "hit")]
    /\ UNCHANGED <<chat, current_infer, calls, fail, ref, txt_smp, inp, outp>>

\* close() on a generator (or its collection after the consumer dropped it):
\* GeneratorExit is raised at the yield where it is suspended, the with block
\* of line 164 is left and line 198 is not reached
Close(n) ==
    LET g == gens[n]
        open == g.kind = "stream" /\ g.pc = "suspended"
    IN
    /\ g.kind \in {"stream", "hit"}
    /\ g.pc \in {"created", "suspended"}
    /\ gens' = [gens EXCEPT ![n] = [g EXCEPT !.pc = "closed", !.saved = None]]
    /\ rng' = IF open THEN LeaveRng(Val(g.saved), rng) ELSE rng
    /\ scopes' = Without(scopes, n)
    /\ crossed' = (crossed \/ Crosses(scopes, n))
    /\ last' = [NoCall EXCEPT !.op = "close", !.key = g.key, !.stream = TRUE, !.gen = n,
                              !.hit = (g.kind = "hit")]
    /\ UNCHANGED <<chat, current_infer, cache, calls, fail, ref, txt_smp, inp, outp>>

\* next() on the generator of a streaming hit, lines 100-103
HitNext(n) ==
    LET g == gens[n] IN
    /\ g.kind = "hit"
    /\ g.pc \in {"created", "suspended"}
    /\ IF g.pc = "created"
       THEN /\ gens' = [gens EXCEPT ![n] = [g EXCEPT !.pc = "suspended",
                                                     !.yielded = <<Val(g.buff)>>,
                                                     !.held = <<Val(g.buff)>>]]
            /\ last' = [NoCall EXCEPT !.op = "next", !.key = g.key, !.stream = TRUE, !.hit = TRUE,
                                      !.gen = n, !.ret = g.buff]
       ELSE /\ gens' = [gens EXCEPT ![n] = [g EXCEPT !.pc = "done"]]
            /\ last' = [NoCall EXCEPT !.op = "next", !.key = g.key, !.stream = TRUE, !.hit = TRUE,
                                      !.gen = n]
    /\ UNCHANGED <<chat, current_infer, cache, calls, fail, ref, txt_smp, inp, outp, rng, scopes, crossed>>

\* ChatTTSInfer.interrupt: the stop signal of operation n is raised; an
\* operation that has ended has no step left to observe it
Signal(gs, n) ==
    IF gs[n].pc \in {"created", "suspended"} THEN [gs EXCEPT ![n].flag = TRUE] ELSE gs

\* lines 70-71: self.current_infer.interrupt()
interrupt(gs, cur) == Signal(gs, cur)

\* interrupt() on the model; with current_infer None the attribute lookup on
\* None raises AttributeError
Interrupt ==
    /\ IF current_infer = 0
       THEN /\ gens' = gens
            /\ last' = [NoCall EXCEPT !.op = "interrupt", !.err = "AttributeError"]
       ELSE /\ gens' = [interrupt(gens, current_infer) EXCEPT
                           ![current_infer].intr =
                               @ \/ gens[current_infer].pc \in {"created", "suspended"}]
            /\ last' = [NoCall EXCEPT !.op = "interrupt", !.gen = current_infer]
    /\ UNCHANGED <<chat, current_infer, cache, calls, fail, ref, txt_smp, inp, outp, rng, scopes, crossed>>

Next ==
    \/ \E k \in Keys, stream \in BOOLEAN : GenerateHit(k, stream)
    \/ \E k \in Keys : GenerateBatch(k)
    \/ \E k \in Keys : GenerateStream(k)
    \/ \E n \in 1..Len(gens) : StreamNext(n)
    \/ \E n \in 1..Len(gens) : HitNext(n)
    \/ Interrupt

Spec == Init /\ [][Next]_vars

\* ------------------------------------- abandoned and failing generations
\* lines 139-151: the backend raises inside generate_audio; the exception
\* leaves the with block and generate, so lines 152-159 are not reached
BatchRaise(k) ==
    /\ IsNone(get_cache(cache, k))
    /\ Len(gens) < MaxGens
    /\ chat' = TRUE
    /\ current_infer' = Len(gens) + 1
    /\ calls' = calls + 1
    /\ gens' = Append(gens, NewGen(k, "batch", "failed", None, <<>>))
    /\ last' = [NoCall EXCEPT !.op = "generate", !.key = k, !.gen = Len(gens) + 1,
                              !.err = "BackendError"]
    /\ rng' = LeaveRng(rng, Advance(ScopeRng(infer_seed(k), rng)))
    /\ UNCHANGED <<cache, fail, ref, txt_smp, inp, outp, scopes, crossed>>

\* lines 164-177: the backend raises while next() asks it for a partial batch;
\* the exception leaves the with block and the generator, line 198 is not
\* reached
StreamRaise(n) ==
    LET g == gens[n]
        k == g.key
        buff1 == IF g.pc = "suspended" THEN Accumulate(g.buff, g.yielded[Len(g.yielded)]) ELSE g.buff
        held1 == IF g.pc = "suspended" THEN Alias(g.held, buff1) ELSE g.held
        saved1 == IF g.pc = "created" THEN Some(rng) ELSE g.saved
        rng1 == IF g.pc = "created" THEN ScopeRng(infer_seed(k), rng) ELSE rng
    IN
    /\ g.kind = "stream"
    /\ g.pc \in {"created", "suspended"}
    /\ calls' = IF g.pc = "created" THEN calls + 1 ELSE calls
    /\ gens' = [gens EXCEPT ![n] = [g EXCEPT !.pc = "failed", !.buff = buff1, !.held = held1,
                                              !.saved = None]]
    /\ rng' = LeaveRng(Val(saved1), Advance(rng1))
    /\ scopes' = Without(scopes, n)
    /\ crossed' = (crossed \/ Crosses(scopes, n))
    /\ last' = [NoCall EXCEPT !.op = "next", !.key = k, !.stream = TRUE, !.gen = n,
                              !.err = "BackendError"]
    /\ UNCHANGED <<chat, current_infer, cache, fail, ref, txt_smp, inp, outp>>

ConsumerInit == Init /\ fail = {}

ConsumerNext ==
    \/ \E k \in Keys, stream \in BOOLEAN : GenerateHit(k, stream)
    \/ \E k \in Keys : GenerateBatch(k)
    \/ \E k \in Keys : GenerateStream(k)
    \/ \E k \in Keys : BatchRaise(k)
    \/ \E n \in 1..Len(gens) : StreamNext(n)
    \/ \E n \in 1..Len(gens) : StreamRaise(n)
    \/ \E n \in 1..Len(gens) : HitNext(n)
    \/ \E n \in 1..Len(gens) : Close(n)

\* generate calls whose consumer may abandon a sequence and whose backend may
\* raise
ConsumerSpec == ConsumerInit /\ [][ConsumerNext]_vars

\* ------------------------------------------------------ model lifecycle
\* is_loaded, lines 34-35
is_loaded(c) == c

LifeFrame == <<current_infer, cache, gens, calls, fail, ref, txt_smp, rng, scopes, crossed, inp, outp>>

\* lines 37-39
Load ==
    /\ chat' = TRUE
    /\ last' = [NoCall EXCEPT !.op = "load"]
    /\ UNCHANGED LifeFrame

\* an unload that keeps the handle
UnloadKeeps ==
    /\ chat' = chat
    /\ last' = [NoCall EXCEPT !.op = "unload"]
    /\ UNCHANGED LifeFrame

\* lines 41-43; unload_chat_tts is specified for a loaded handle only, so with
\* self.chat None it may return or raise, and self.chat is None either way.
\* The method has no guard: called while a streaming generation is created or
\* suspended it sets self.chat to None all the same, and the generator goes on
\* with the ChatTTSInfer it was given at line 105.
Unload ==
    /\ chat' = FALSE
    /\ \E e \in (IF chat THEN {"none"} ELSE {"none", "UnloadError"}) :
           last' = [NoCall EXCEPT !.op = "unload", !.err = e]
    /\ UNCHANGED LifeFrame

\* lines 45-48
Encode ==
    /\ chat' = TRUE
    /\ last' = [NoCall EXCEPT !.op = "encode"]
    /\ UNCHANGED LifeFrame

\* lines 50-53
Decode ==
    /\ chat' = TRUE
    /\ last' = [NoCall EXCEPT !.op = "decode"]
    /\ UNCHANGED LifeFrame

\* lines 65-66: a new ChatTTSInfer around self.load(); current_infer is not
\* touched
GetInfer ==
    /\ chat' = TRUE
    /\ last' = [NoCall EXCEPT !.op = "get_infer"]
    /\ UNCHANGED LifeFrame

LifeInit == Init /\ fail = {}

LifeNext ==
    \/ Load
    \/ Unload
    \/ Encode
    \/ Decode
    \/ GetInfer
    \/ \E k \in Keys, stream \in BOOLEAN : GenerateHit(k, stream)
    \/ \E k \in Keys : GenerateBatch(k)
    \/ \E k \in Keys : GenerateStream(k)
    \/ \E n \in 1..Len(gens) : StreamNext(n)
    \/ \E n \in 1..Len(gens) : HitNext(n)

LifeSpec == LifeInit /\ [][LifeNext]_vars

\* ------------------------------------------- repeated non-streaming calls
\* the backend as a function of its inputs and the random state r it samples
\* under; under the state the request's own seed establishes it produces the
\* audio of generate_audio
Shift(w, d) == [j \in 1..Len(w) |-> w[j] + d]
generate_audio_rng(k, F, r) ==
    [i \in Segs(k) |->
        IF i \in F THEN None
        ELSE Some(<<Shift(Wave(k, i), r - Seeded(infer_seed(k))),
                    Shift(Wave2(k, i), r - Seeded(infer_seed(k)))>>)]

\* a cache that stores nothing
NoOpGet(c, k) == None
NoOpSet(c, k, value) == c

\* inp: the request (key) and whether the cache is the no-op cache
DetInit ==
    /\ chat = FALSE
    /\ current_infer = 0
    /\ cache = [k \in Keys |-> None]
    /\ gens = <<>>
    /\ calls = 0
    /\ last = NoCall
    /\ fail \in SUBSET (1..MaxSegs)
    /\ ref = None
    /\ txt_smp = None
    /\ rng = InitialRng
    /\ scopes = <<>>
    /\ crossed = FALSE
    /\ inp \in {Some([key |-> k, nocache |-> b]) : k \in Keys, b \in BOOLEAN}
    /\ outp = <<>>

\* generate(segments, context, stream=False), lines 95-159, with the result
\* appended to outp
DetCall ==
    LET k == Val(inp).key
        nocache == Val(inp).nocache
        cached == IF nocache THEN NoOpGet(cache, k) ELSE get_cache(cache, k)
        r_in == ScopeRng(infer_seed(k), rng)
        audio_arr == [i \in Segs(k) |-> NonStreamConv(generate_audio_rng(k, Fail(k), r_in)[i])]
    IN
    /\ Len(outp) < 2
    /\ IF ~IsNone(cached)
       THEN /\ outp' = Append(outp, cached)
            /\ last' = [NoCall EXCEPT !.op = "generate", !.key = k, !.hit = TRUE, !.ret = cached]
            /\ UNCHANGED <<chat, current_infer, cache, gens, calls, rng>>
       ELSE /\ chat' = TRUE
            /\ current_infer' = Len(gens) + 1
            /\ calls' = calls + 1
            /\ cache' = IF nocache THEN NoOpSet(cache, k, Some(audio_arr))
                        ELSE set_cache(cache, k, Some(audio_arr))
            /\ gens' = Append(gens, NewGen(k, "batch", "done", None,
                                           IF nocache THEN <<>> ELSE <<Some(audio_arr)>>))
            /\ rng' = LeaveRng(rng, Advance(r_in))
            /\ outp' = Append(outp, Some(audio_arr))
            /\ last' = [NoCall EXCEPT !.op = "generate", !.key = k, !.gen = Len(gens) + 1,
                                      !.ret = Some(audio_arr)]
    /\ UNCHANGED <<fail, ref, txt_smp, scopes, crossed, inp>>

\* other code draws from the global random stream between the calls
AmbientDraw ==
    /\ Advance(rng) # rng
    /\ rng' = Advance(rng)
    /\ UNCHANGED <<chat, current_infer, cache, gens, calls, last, fail, ref, txt_smp, scopes,
                   crossed, inp, outp>>

DetNext == DetCall \/ AmbientDraw

DetSpec == DetInit /\ [][DetNext]_vars

\* ------------------------------------------- reference transcript (seg0)
FullStop == "cjk_full_stop"     \* the ideographic full stop of lines 133-134
Chars == {"a", ".", "!", "?", FullStop}
Terminal == {".", "!", "?", FullStop}

RECURSIVE StrUpTo(_)
StrUpTo(n) ==
    IF n = 0 THEN {<<>>}
    ELSE StrUpTo(n - 1) \cup {Append(t, c) : t \in {u \in StrUpTo(n - 1) : Len(u) = n - 1}, c \in Chars}

\* the first segment as get_ref_wav sees it: spk is set or None, spk.get_ref
\* finds reference data for the emotion or not, and the data's text
RefInputs ==
    {[spk |-> FALSE, found |-> FALSE, text |-> <<>>], [spk |-> TRUE, found |-> FALSE, text |-> <<>>]}
        \cup {[spk |-> TRUE, found |-> TRUE, text |-> t] : t \in StrUpTo(MaxTxt)}

\* lines 73-90: the text half of the (wav, text) pair
get_ref_wav(segment) ==
    IF ~segment.spk THEN None
    ELSE IF ~segment.found THEN None
    ELSE Some(segment.text)

\* str.endswith with a one-character suffix
endswith(t, c) == Len(t) > 0 /\ t[Len(t)] = c

\* lines 133-134
NormalizeTxt(t) ==
    IF ~IsNone(t) /\ Len(Val(t)) > 0 /\ ~endswith(Val(t), FullStop)
    THEN Some(Append(Val(t), FullStop))
    ELSE t

PrepInit ==
    /\ chat = FALSE
    /\ current_infer = 0
    /\ cache = [k \in Keys |-> None]
    /\ gens = <<>>
    /\ calls = 0
    /\ last = NoCall
    /\ fail = {}
    /\ ref \in {Some(r) : r \in RefInputs}
    /\ txt_smp = None
    /\ rng = InitialRng
    /\ scopes = <<>>
    /\ crossed = FALSE
    /\ inp = None
    /\ outp = None

\* lines 112, 133-134 and the txt_smp argument of the backend call
Prepare ==
    /\ IsNone(txt_smp)
    /\ txt_smp' = Some(NormalizeTxt(get_ref_wav(Val(ref))))
    /\ UNCHANGED <<chat, current_infer, cache, gens, calls, last, fail, ref, rng, scopes, crossed, inp, outp>>

PrepNext == Prepare

PrepSpec == PrepInit /\ [][PrepNext]_vars

\* ------------------------------------------------ backend call arguments
\* characters of a content prompt; str.strip() removes whitespace at both ends
PromptChars == {"a", " "}
Whitespace == {" "}

RECURSIVE PromptsUpTo(_)
PromptsUpTo(n) ==
    IF n = 0 THEN {<<>>}
    ELSE PromptsUpTo(n - 1)
            \cup {Append(t, c) : t \in {u \in PromptsUpTo(n - 1) : Len(u) = n - 1}, c \in PromptChars}

RECURSIVE lstrip(_)
lstrip(t) == IF Len(t) > 0 /\ t[1] \in Whitespace THEN lstrip(SubSeq(t, 2, Len(t))) ELSE t
RECURSIVE rstrip(_)
rstrip(t) == IF Len(t) > 0 /\ t[Len(t)] \in Whitespace THEN rstrip(SubSeq(t, 1, Len(t) - 1)) ELSE t
strip(t) == rstrip(lstrip(t))

\* lines 127-128
prompt_prefix == <<"[Ptts][Ptts][Ptts] ">>
prompt_suffix == <<" [Stts][Ptts][Stts][Ptts][Stts]">>

\* lines 126-129
WrapAlways(prompt2) == prompt_prefix \o prompt2 \o prompt_suffix
WrapPrompt2(prompt2) ==
    IF Len(strip(prompt2)) > 0 THEN prompt_prefix \o prompt2 \o prompt_suffix ELSE prompt2

\* a first segment: the sampling parameters, prompt1, prefix and seed follow
\* the tag b, the speaker is absent, without or with reference data
BaseSeg(b, spk, found, prompt2) ==
    [text |-> 100, top_p |-> b, top_k |-> 10 + b, temperature |-> 20 + b, prompt1 |-> 30 + b,
     prompt2 |-> prompt2, prefix |-> 40 + b, infer_seed |-> 50 + b, spk |-> spk, found |-> found,
     ref_text |-> <<"a">>]

Fields == {"none", "top_p", "top_k", "temperature", "prompt1", "prompt2", "prefix", "infer_seed",
           "spk", "found"}

\* the segment seg with field f changed
Vary(seg, f) ==
    CASE f = "top_p" -> [seg EXCEPT !.top_p = 5 + @]
      [] f = "top_k" -> [seg EXCEPT !.top_k = 5 + @]
      [] f = "temperature" -> [seg EXCEPT !.temperature = 5 + @]
      [] f = "prompt1" -> [seg EXCEPT !.prompt1 = 5 + @]
      [] f = "prompt2" -> [seg EXCEPT !.prompt2 = Append(@, "a")]
      [] f = "prefix" -> [seg EXCEPT !.prefix = 5 + @]
      [] f = "infer_seed" -> [seg EXCEPT !.infer_seed = 5 + @]
      [] f = "spk" -> [seg EXCEPT !.spk = ~@, !.found = ~seg.spk]
      [] f = "found" -> [seg EXCEPT !.found = seg.spk /\ ~@]
      [] OTHER -> seg

\* a batch of n segments: seg0, then segments that differ from it in field f
\* and in their text
Batch(seg0, f, n) == [i \in 1..n |-> IF i = 1 THEN seg0 ELSE [Vary(seg0, f) EXCEPT !.text = 100 + i - 1]]

ArgInputs ==
    {[segments |-> Batch(BaseSeg(b, sp[1], sp[2], p2), f, n), stream |-> st, chunk_size |-> c] :
        b \in 1..2, sp \in {<<FALSE, FALSE>>, <<TRUE, FALSE>>, <<TRUE, TRUE>>},
        p2 \in PromptsUpTo(MaxPrompt), f \in Fields, n \in 1..MaxSegs, st \in BOOLEAN,
        c \in 1..MaxChunk}

\* line 110
SegLast(segments) == segments[Len(segments)]
Seg0(segments) == segments[1]

\* lines 108-134 and the keyword arguments of lines 140-151 and 165-177,
\* with the seed of lines 139 and 164
BackendArgs(segments, stream, chunk) ==
    LET seg0 == Seg0(segments)
        \* line 111: get_spk_emb gives the embedding of the segment's speaker
        spk_emb == IF seg0.spk THEN Some("emb") ELSE None
        \* line 112
        txt == get_ref_wav([spk |-> seg0.spk, found |-> seg0.found, text |-> seg0.ref_text])
        spk_wav == IF IsNone(txt) THEN None ELSE Some("wav")
        \* line 113
        spk_smp == IF ~IsNone(spk_wav) THEN Some("smp") ELSE None
    IN
    [text |-> [i \in 1..Len(segments) |-> segments[i].text],
     spk_emb |-> IF IsNone(spk_smp) THEN spk_emb ELSE None,
     spk_smp |-> spk_smp,
     txt_smp |-> NormalizeTxt(txt),
     top_P |-> seg0.top_p,
     top_K |-> seg0.top_k,
     temperature |-> seg0.temperature,
     prompt1 |-> seg0.prompt1,
     prompt2 |-> WrapPrompt2(seg0.prompt2),
     prefix |-> seg0.prefix,
     stream_chunk_size |-> IF stream THEN Some(chunk) ELSE None,
     seed |-> seg0.infer_seed]

ArgsInit ==
    /\ chat = FALSE
    /\ current_infer = 0
    /\ cache = [k \in Keys |-> None]
    /\ gens = <<>>
    /\ calls = 0
    /\ last = NoCall
    /\ fail = {}
    /\ ref = None
    /\ txt_smp = None
    /\ rng = InitialRng
    /\ scopes = <<>>
    /\ crossed = FALSE
    /\ inp \in {Some(a) : a \in ArgInputs}
    /\ outp = None

\* lines 108-134 and the arguments of the backend call of lines 140-151 or
\* 165-177: outp holds what the backend is called with
CallBackend ==
    /\ IsNone(outp)
    /\ outp' = Some(BackendArgs(Val(inp).segments, Val(inp).stream, Val(inp).chunk_size))
    /\ UNCHANGED <<chat, current_infer, cache, gens, calls, last, fail, ref, txt_smp, rng, scopes,
                   crossed, inp>>

ArgsNext == CallBackend

ArgsSpec == ArgsInit /\ [][ArgsNext]_vars

\* ------------------------------------------------------- API endpoints
\* (modules/api/impl/ssml_api.py and refiner_api.py)
\* AudioFormat members; str.lower() maps a name to its lower-case form
Formats == {"mp3", "wav", "ogg", "flac"}
lower(f) ==
    CASE f = "MP3" -> "mp3"
      [] f = "WAV" -> "wav"
      [] f = "OGG" -> "ogg"
      [] f = "FLAC" -> "flac"
      [] OTHER -> f

HTTPException(status_code, detail) ==
    [kind |-> "HTTPException", status_code |-> status_code, detail |-> detail]
OtherException(msg) == [kind |-> "RuntimeError", status_code |-> 0, detail |-> msg]

\* what the collaborator behind an endpoint does: SSMLHandler (constructor,
\* then enqueue_to_buffer) or refiner.refine_text
Outcomes ==
    {[stage |-> "none", exc |-> None]}
        \cup {[stage |-> st, exc |-> Some(e)] :
                 st \in {"construct", "run"},
                 e \in {HTTPException(404, "not found"), HTTPException(400, "bad ssml"),
                        OtherException("boom")}}

BatchSizes == {0, 1, 4}
SpliterThrs == {49, 50, 51, 100}
SsmlTexts == {<<>>, <<"<speak/>">>}

ApiInputs ==
    {[ep |-> "ssml", ssml |-> x, format |-> f, batch_size |-> b, spliter_thr |-> t, collab |-> o] :
        x \in SsmlTexts, f \in Formats, b \in BatchSizes, t \in SpliterThrs, o \in Outcomes}
    \cup {[ep |-> "refine", ssml |-> <<>>, format |-> "mp3", batch_size |-> 4, spliter_thr |-> 100,
           collab |-> o] : o \in {c \in Outcomes : c.stage # "construct"}}

\* a failure that is raised to the caller as it is
ErrorPass(e) == e
\* ssml_api.py lines 82-90, refiner_api.py lines 41-49
ErrorMap(e) == IF e.kind = "HTTPException" THEN e ELSE HTTPException(500, e.detail)

\* ssml_api.py lines 42-58: the first check that fails, or None
Validate(req) ==
    IF req.batch_size < 1 THEN Some(HTTPException(400, "Batch size must be greater than 0."))
    ELSE IF req.spliter_thr < 50
         THEN Some(HTTPException(400, "Spliter threshold must be greater than 50."))
    ELSE IF Len(req.ssml) = 0 THEN Some(HTTPException(400, "SSML content is required."))
    ELSE IF lower(req.format) \notin {"mp3", "wav"}
         THEN Some(HTTPException(400, "Format must be 'mp3' or 'wav'."))
    ELSE None

\* ssml_api.py lines 77-79
mime_type(format) == IF format = "mp3" THEN "audio/mpeg" ELSE "audio/" \o format

\* what the caller of an endpoint gets, with whether the collaborator was
\* constructed and whether its work was started
Raised(e, constructed, started) ==
    [kind |-> ErrorMap(e).kind, status_code |-> ErrorMap(e).status_code, detail |-> ErrorMap(e).detail,
     constructed |-> constructed, started |-> started]

\* ssml_api.py lines 28-90
synthesize_ssml_api(req) ==
    IF ~IsNone(Validate(req)) THEN Raised(Val(Validate(req)), FALSE, FALSE)
    ELSE IF req.collab.stage = "construct" THEN Raised(Val(req.collab.exc), TRUE, FALSE)
    ELSE IF req.collab.stage = "run" THEN Raised(Val(req.collab.exc), TRUE, TRUE)
    ELSE [kind |-> "StreamingResponse", status_code |-> 200, detail |-> mime_type(lower(req.format)),
          constructed |-> TRUE, started |-> TRUE]

\* refiner_api.py lines 23-49
refiner_prompt_post(req) ==
    IF req.collab.stage = "run" THEN Raised(Val(req.collab.exc), FALSE, TRUE)
    ELSE [kind |-> "dict", status_code |-> 200, detail |-> "ok", constructed |-> FALSE,
          started |-> TRUE]

ApiInit ==
    /\ chat = FALSE
    /\ current_infer = 0
    /\ cache = [k \in Keys |-> None]
    /\ gens = <<>>
    /\ calls = 0
    /\ last = NoCall
    /\ fail = {}
    /\ ref = None
    /\ txt_smp = None
    /\ rng = InitialRng
    /\ scopes = <<>>
    /\ crossed = FALSE
    /\ inp \in {Some(r) : r \in ApiInputs}
    /\ outp = None

ApiFrame == <<chat, current_infer, cache, gens, calls, last, fail, ref, txt_smp, rng, scopes,
              crossed, inp>>

SynthesizeSsml ==
    /\ IsNone(outp)
    /\ Val(inp).ep = "ssml"
    /\ outp' = Some(synthesize_ssml_api(Val(inp)))
    /\ UNCHANGED ApiFrame

RefinePrompt ==
    /\ IsNone(outp)
    /\ Val(inp).ep = "refine"
    /\ outp' = Some(refiner_prompt_post(Val(inp)))
    /\ UNCHANGED ApiFrame

ApiNext == SynthesizeSsml \/ RefinePrompt

ApiSpec == ApiInit /\ [][ApiNext]_vars

\* ------------------------------------------- SSML length limit (web UI)
\* (modules/webui/webui_utils.py)
\* an SSMLBreak, and an SSMLSegment whose "text" has n characters
SSMLBreak == [kind |-> "break", text |-> <<>>]
SSMLSegment(n) == [kind |-> "segment", text |-> [j \in 1..n |-> "a"]]
isBreak(seg) == seg.kind = "break"

Elements == {SSMLBreak} \cup {SSMLSegment(n) : n \in 0..MaxSegText}

RECURSIVE ListsUpTo(_)
ListsUpTo(n) ==
    IF n = 0 THEN {<<>>}
    ELSE ListsUpTo(n - 1)
            \cup {Append(l, e) : l \in {u \in ListsUpTo(n - 1) : Len(u) = n - 1}, e \in Elements}

\* lines 64-66: total_max is any int, a negative one included
LimitInputs == {[segments |-> l, total_max |-> m] : l \in ListsUpTo(MaxList), m \in (-2)..MaxTotal}

\* a loop that passes over a text segment that does not fit and goes on
RECURSIVE SkipLoop(_, _, _, _, _)
SkipLoop(segments, total_max, i, total_len, ret_segments) ==
    IF i > Len(segments) THEN ret_segments
    ELSE IF isBreak(segments[i])
         THEN SkipLoop(segments, total_max, i + 1, total_len, Append(ret_segments, segments[i]))
    ELSE IF total_len + Len(segments[i].text) > total_max
         THEN SkipLoop(segments, total_max, i + 1, total_len, ret_segments)
    ELSE SkipLoop(segments, total_max, i + 1, total_len + Len(segments[i].text),
                  Append(ret_segments, segments[i]))

\* lines 69-76: the for loop from element i on, with the running total_len
\* and ret_segments
RECURSIVE LimitLoop(_, _, _, _, _)
LimitLoop(segments, total_max, i, total_len, ret_segments) ==
    IF i > Len(segments) THEN ret_segments
    ELSE IF isBreak(segments[i])
         THEN LimitLoop(segments, total_max, i + 1, total_len, Append(ret_segments, segments[i]))
    ELSE IF total_len + Len(segments[i].text) > total_max
         THEN ret_segments
    ELSE LimitLoop(segments, total_max, i + 1, total_len + Len(segments[i].text),
                   Append(ret_segments, segments[i]))

LimitSkipping(segments, total_max) == SkipLoop(segments, total_max, 1, 0, <<>>)
\* lines 64-77
segments_length_limit(segments, total_max) == LimitLoop(segments, total_max, 1, 0, <<>>)

LimitInit ==
    /\ chat = FALSE
    /\ current_infer = 0
    /\ cache = [k \in Keys |-> None]
    /\ gens = <<>>
    /\ calls = 0
    /\ last = NoCall
    /\ fail = {}
    /\ ref = None
    /\ txt_smp = None
    /\ rng = InitialRng
    /\ scopes = <<>>
    /\ crossed = FALSE
    /\ inp \in {Some(r) : r \in LimitInputs}
    /\ outp = None

\* line 115 of synthesize_ssml: segments = segments_length_limit(segments, max_len)
LimitSegments ==
    /\ IsNone(outp)
    /\ outp' = Some(segments_length_limit(Val(inp).segments, Val(inp).total_max))
    /\ UNCHANGED <<chat, current_infer, cache, gens, calls, last, fail, ref, txt_smp, rng, scopes,
                   crossed, inp>>

LimitNext == LimitSegments

LimitSpec == LimitInit /\ [][LimitNext]_vars

\* ================================================================ claims
Stream(n) == gens[n].kind = "stream"
Gens == 1..Len(gens)

\* concatenation of a sequence of arrays, in order
RECURSIVE ConcatAll(_)
ConcatAll(ss) == IF Len(ss) = 0 THEN <<>> ELSE concatenate(ConcatAll(SubSeq(ss, 1, Len(ss) - 1)), ss[Len(ss)])

\* the chunks yielded for segment i by generator g, in yield order
Chunks(g, i) == [m \in 1..Len(g.yielded) |-> g.yielded[m][i][2]]
Steps(g) == StreamSteps(g.key, Fail(g.key))

Completed(k) ==
    \E n \in Gens : gens[n].key = k /\ gens[n].kind \in {"batch", "stream"} /\ gens[n].pc = "done"

\* C1: once a generate call on a cache miss has completed (non-streaming
\* return, or streaming sequence consumed to exhaustion), every later generate
\* call with the same key returns the stored value and does not invoke the
\* backend.
C1_LaterCallServedFromCache ==
    [][(last'.op = "generate" /\ Completed(last'.key)) =>
          /\ calls' = calls
          /\ last'.hit
          /\ ~IsNone(get_cache(cache, last'.key))
          /\ IF last'.stream
             THEN gens'[last'.gen].buff = get_cache(cache, last'.key)
             ELSE last'.ret = get_cache(cache, last'.key)]_vars

\* C2: a streaming miss consumed to exhaustion writes the cache exactly once,
\* after the last yield, and the value holds per segment index the
\* concatenation in yield order of the chunks yielded, paired with 24000.
C2_StreamWritesConcatenation ==
    \A n \in Gens : Stream(n) =>
        LET g == gens[n] IN
        /\ g.pc # "done" => Len(g.written) = 0
        /\ g.pc = "done" =>
              /\ Len(g.written) = 1
              /\ g.written[1] = Some([i \in Segs(g.key) |-> <<24000, ConcatAll(Chunks(g, i))>>])

\* C3: for a stream that ran to its end, the chunks yielded for segment index
\* i concatenate to element i of the non-streaming result for the same
\* request, for every index (failed and early-finished slots included).
C3_StreamEqualsBatch ==
    \A n \in Gens : (Stream(n) /\ gens[n].pc = "done" /\ Len(gens[n].yielded) = Steps(gens[n])) =>
        \A i \in Segs(gens[n].key) :
            ConcatAll(Chunks(gens[n], i)) = NonStreamResult(gens[n].key, Fail(gens[n].key))[i][2]

C3_Witness ==
    \E n \in Gens :
        /\ Stream(n) /\ gens[n].pc = "done" /\ Len(gens[n].yielded) = Steps(gens[n])
        /\ Steps(gens[n]) >= 2
        /\ NSegs(gens[n].key) >= 3
        /\ 2 \in Fail(gens[n].key) /\ 1 \notin Fail(gens[n].key) /\ 3 \notin Fail(gens[n].key)
        /\ \E i \in Segs(gens[n].key) : i \notin Fail(gens[n].key) /\ gens[n].yielded[2][i][2] = <<>>

\* C4: what a request receives from the cache is the audio a fresh, complete
\* inference produces for its key.
C4_CacheHoldsFreshAudio ==
    \A k \in Keys :
        ~IsNone(get_cache(cache, k)) => Val(get_cache(cache, k)) = NonStreamResult(k, Fail(k))

\* C5: a non-streaming call on n segments raises nothing and returns n entries
\* in segment order: (24000, empty) for a failed slot, (24000, primary channel)
\* and non-empty for every other slot.
C5_PartialFailureIsolated ==
    (last.op = "generate" /\ ~last.stream /\ ~last.hit) =>
        /\ last.err = "none"
        /\ ~IsNone(last.ret)
        /\ Len(Val(last.ret)) = NSegs(last.key)
        /\ \A i \in Segs(last.key) :
              IF i \in Fail(last.key)
              THEN Val(last.ret)[i] = <<24000, <<>>>>
              ELSE /\ Val(last.ret)[i] = <<24000, Wave(last.key, i)>>
                   /\ Len(Val(last.ret)[i][2]) > 0

C5_Witness ==
    /\ last.op = "generate" /\ ~last.stream /\ ~last.hit
    /\ NSegs(last.key) = 3
    /\ Fail(last.key) = {2}
    /\ ~IsNone(last.ret)

\* C6: every value handed to set_cache is a list with one (24000, samples)
\* pair per segment of the batch, never None.
C6_CacheValueWellFormed ==
    \A n \in Gens : \A w \in 1..Len(gens[n].written) :
        LET v == gens[n].written[w] IN
        /\ ~IsNone(v)
        /\ Len(Val(v)) = NSegs(gens[n].key)
        /\ \A i \in Segs(gens[n].key) : Val(v)[i][1] = 24000

\* C7: if interrupt() is called while a streaming call is active (it has
\* yielded some but not all of its partial batches), the sequence ends: the
\* next request for an item performs no new backend step, yields nothing more
\* and ends the sequence without an error.
C7_InterruptEndsStream ==
    [][\A n \in Gens :
          (Stream(n) /\ gens[n].pc = "suspended"
              /\ Len(gens[n].yielded) >= 1 /\ Len(gens[n].yielded) < Steps(gens[n])
              /\ last.op = "interrupt"
              /\ last'.op = "next" /\ last'.gen = n) =>
              /\ gens'[n].pc = "done"
              /\ gens'[n].steps = gens[n].steps
              /\ Len(gens'[n].yielded) = Len(gens[n].yielded)
              /\ last'.err = "none"
              /\ IsNone(last'.ret)]_vars

\* C7, for the interrupt() calls that lines 70-71 deliver to the streaming
\* call's own operation (current_infer is still the one line 106 stored for
\* it): the next request for an item ends the sequence, with no further
\* yield, no further backend step and no error.
C7_DeliveredInterruptEndsStream ==
    [][\A n \in Gens :
          (Stream(n) /\ gens[n].pc = "suspended" /\ gens[n].intr
              /\ last'.op = "next" /\ last'.gen = n) =>
              /\ gens'[n].pc = "done"
              /\ gens'[n].steps = gens[n].steps
              /\ Len(gens'[n].yielded) = Len(gens[n].yielded)
              /\ last'.err = "none"
              /\ IsNone(last'.ret)]_vars

\* a stream interrupted through its own operation after its first yield has
\* ended at the next request, short of its remaining steps
C7_Witness ==
    \E n \in Gens :
        /\ Stream(n) /\ gens[n].intr /\ gens[n].pc = "done"
        /\ Len(gens[n].yielded) >= 1
        /\ Len(gens[n].yielded) < Steps(gens[n])
        /\ gens[n].steps = Len(gens[n].yielded)
        /\ last.op = "next" /\ last.gen = n /\ last.err = "none"

\* C8: interrupt() with no active operation is a no-op or raises a dedicated
\* "nothing to interrupt" error, and leaves handle, current operation and
\* cache unchanged.
C8_InterruptIdleSafe ==
    [][(current_infer = 0 /\ last'.op = "interrupt") =>
          /\ last'.err \in {"none", "NothingToInterrupt"}
          /\ chat' = chat /\ current_infer' = current_infer /\ cache' = cache]_vars

\* C9: an item handed to the consumer holds the audio generated since the
\* previous yield and is not changed by later steps of the generator.
C9_YieldedItemsStable ==
    \A n \in Gens : Stream(n) =>
        \A m \in 1..Len(gens[n].held) : gens[n].held[m] = gens[n].yielded[m]

\* C10: whenever the first segment's speaker yields a reference transcript,
\* the transcript passed to the backend ends with a sentence-terminal mark: one
\* is appended when missing, and a transcript already ending with one is
\* passed unchanged.
C10_TranscriptTerminal ==
    (~IsNone(txt_smp) /\ Val(ref).spk /\ Val(ref).found) =>
        LET t == Val(ref).text
            out == Val(txt_smp)
        IN
        /\ ~IsNone(out)
        /\ Len(Val(out)) > 0 /\ Val(out)[Len(Val(out))] \in Terminal
        /\ (Len(t) > 0 /\ t[Len(t)] \in Terminal) => Val(out) = t
        /\ ~(Len(t) > 0 /\ t[Len(t)] \in Terminal) => \E c \in Terminal : Val(out) = Append(t, c)

\* every generation started through generate has ended: returned, raised,
\* exhausted or closed
AllEnded ==
    /\ Len(gens) > 0
    /\ \A n \in Gens : gens[n].kind \in {"batch", "stream"} => gens[n].pc \in {"done", "failed", "closed"}

\* C11 as stated: once every generation has ended, the global random state is
\* the one in effect before the first seed scope was entered, for every
\* interleaving, non-nested ones included.
C11_RngRestoredAlways == AllEnded => rng = InitialRng

\* C11: once every generation has ended (return, exception, exhaustion or
\* close), the global random state is the one in effect before the first seed
\* scope was entered, provided no seed scope was left while a scope entered
\* later was still open.
C11_RngRestoredWhenNested == (AllEnded /\ ~crossed) => rng = InitialRng

C11_Witness ==
    /\ AllEnded /\ ~crossed
    /\ \E n \in Gens : Stream(n) /\ gens[n].pc = "closed" /\ Len(gens[n].yielded) >= 1
    /\ \E n \in Gens : gens[n].pc = "failed"

\* C12: two non-streaming generate calls with identical segments and context
\* (hence the same seed, that of the first segment) return identical audio
\* lists, when the second is served from the cache and when a no-op cache
\* makes both run inference, whatever the ambient random state of each call.
C12_SameSeedSameAudio == Len(outp) = 2 => outp[1] = outp[2]

C12_Witness ==
    /\ Len(outp) = 2
    /\ Val(inp).nocache
    /\ calls = 2
    /\ rng # InitialRng
    /\ ~IsNone(outp[2])
    /\ \E i \in Segs(Val(inp).key) : Len(Val(outp[2])[i][2]) > 0

\* C13 as stated: is_loaded() is true exactly when load, encode, decode or a
\* generate that missed the cache has happened since the last unload (so no
\* other call changes it), and unload is safe on a handle that is not loaded.
C13_LoadedIffListedOps ==
    [][/\ (last'.op \in {"load", "encode", "decode"} \/ (last'.op = "generate" /\ ~last'.hit))
            => is_loaded(chat')
       /\ last'.op = "unload" => (~is_loaded(chat') /\ last'.err = "none")
       /\ ~(last'.op \in {"load", "encode", "decode", "unload"} \/ (last'.op = "generate" /\ ~last'.hit))
            => is_loaded(chat') = is_loaded(chat)]_vars

\* C13: is_loaded() is true exactly when load, encode, decode, get_infer or a
\* generate that missed the cache has happened since the last unload; unload
\* always leaves the model not loaded and, on a loaded handle, raises nothing;
\* a later load makes it loaded again.
C13_LoadedIffLoadingOps ==
    [][/\ (last'.op \in {"load", "encode", "decode", "get_infer"} \/ (last'.op = "generate" /\ ~last'.hit))
            => is_loaded(chat')
       /\ last'.op = "unload" => (~is_loaded(chat') /\ (is_loaded(chat) => last'.err = "none"))
       /\ ~(last'.op \in {"load", "encode", "decode", "get_infer", "unload"}
              \/ (last'.op = "generate" /\ ~last'.hit))
            => is_loaded(chat') = is_loaded(chat)]_vars

\* a streaming miss loaded the model and was consumed, then unload returned
C13_Witness ==
    /\ ~is_loaded(chat)
    /\ last.op = "unload" /\ last.err = "none"
    /\ \E n \in Gens : Stream(n) /\ gens[n].pc = "done" /\ Len(gens[n].yielded) >= 1

\* C14: the backend receives the texts of all segments in batch order, and
\* top_P, top_K, temperature, prompt1, prompt2, prefix, seed, speaker embedding
\* and speaker reference of segments[0] alone: a change of any of these fields
\* on the later segments changes nothing in the call. spk_emb is None whenever
\* spk_smp is not None.
C14_ArgsFromFirstSegment ==
    ~IsNone(outp) =>
        LET a == Val(outp)
            segs == Val(inp).segments
            first == segs[1]
        IN
        /\ Len(a.text) = Len(segs)
        /\ \A i \in 1..Len(segs) : a.text[i] = segs[i].text
        /\ a.top_P = first.top_p /\ a.top_K = first.top_k /\ a.temperature = first.temperature
        /\ a.prompt1 = first.prompt1 /\ a.prefix = first.prefix /\ a.seed = first.infer_seed
        /\ ~IsNone(a.spk_smp) <=> (first.spk /\ first.found)
        /\ ~IsNone(a.spk_emb) <=> (first.spk /\ ~first.found)
        /\ ~IsNone(a.spk_smp) => IsNone(a.spk_emb)
        /\ \A f \in Fields :
              BackendArgs(Batch(first, f, Len(segs)), Val(inp).stream, Val(inp).chunk_size) = a

C14_Witness ==
    /\ ~IsNone(outp)
    /\ Len(Val(inp).segments) >= 3
    /\ Val(inp).segments[1].spk /\ Val(inp).segments[1].found
    /\ ~Val(inp).segments[2].spk
    /\ ~IsNone(Val(outp).spk_smp) /\ IsNone(Val(outp).spk_emb)

\* the wrapped form of a content prompt
Wrapped(p) == <<"[Ptts][Ptts][Ptts] ">> \o p \o <<" [Stts][Ptts][Stts][Ptts][Stts]">>

\* C18 as stated: the prompt2 passed to the backend is the first segment's
\* prompt2 wrapped exactly when it is non-empty, whitespace-only prompts
\* included; an empty prompt2 is passed unwrapped.
C18_WrappedWhenNonEmpty ==
    ~IsNone(outp) =>
        LET p == Val(inp).segments[1].prompt2 IN
        Val(outp).prompt2 = IF Len(p) > 0 THEN Wrapped(p) ELSE p

\* C18: the prompt2 passed to the backend is the first segment's prompt2
\* wrapped once exactly when it holds a character that is not whitespace; an
\* empty or whitespace-only prompt2 is passed unchanged.
C18_WrappedWhenNotBlank ==
    ~IsNone(outp) =>
        LET p == Val(inp).segments[1].prompt2 IN
        Val(outp).prompt2 =
            IF \E i \in 1..Len(p) : p[i] \notin Whitespace THEN Wrapped(p) ELSE p

C18_Witness ==
    /\ ~IsNone(outp)
    /\ Val(inp).segments[1].prompt2 = <<" ", "a">>
    /\ Val(outp).prompt2 = <<"[Ptts][Ptts][Ptts] ", " ", "a", " [Stts][Ptts][Stts][Ptts][Stts]">>

\* the streaming generations that have yielded and are still being consumed
Active == {n \in Gens : Stream(n) /\ gens[n].pc = "suspended"}

\* C15: whenever interrupt() is called while a generation is active, the stop
\* signal is delivered to the backend operation of that generation, for every
\* order of calls (another generate call made and finished in between
\* included).
C15_InterruptReachesActive ==
    [][(last'.op = "interrupt" /\ Cardinality(Active) = 1) =>
          \A n \in Active : gens'[n].flag]_vars

\* the streaming calls whose consumer stopped before the backend stream was
\* exhausted: never advanced, advanced and left suspended, or closed
Abandoned == {n \in Gens : Stream(n) /\ gens[n].pc \in {"created", "suspended", "closed"}}

\* C16: a streaming call whose consumer stops before the backend stream is
\* exhausted writes nothing to the cache: while no other call for the same
\* request has written, the cache has no entry for it, so that a later
\* identical request is a miss.
C16_AbandonedStreamWritesNothing ==
    \A n \in Abandoned :
        /\ Len(gens[n].written) = 0
        /\ (\A m \in Gens : gens[m].key = gens[n].key => Len(gens[m].written) = 0)
              => IsNone(get_cache(cache, gens[n].key))

\* a stream closed after its first item, then the same request run again
C16_Witness ==
    \E n \in Abandoned :
        /\ gens[n].pc = "closed" /\ Len(gens[n].yielded) >= 1
        /\ Len(gens[n].yielded) < Steps(gens[n])
        /\ \E m \in Gens : m > n /\ gens[m].key = gens[n].key /\ ~gens[m].kind = "hit"
                           /\ gens[m].pc = "done" /\ calls = 2

\* C17: on a cache hit generate returns the cached value itself (stream
\* false) or a sequence that yields exactly one item, the cached value (stream
\* true), and leaves is_loaded(), current_infer and the cache unchanged, with
\* no backend call.
C17_HitReturnsCachedOnly ==
    [][/\ (last'.op = "generate" /\ ~IsNone(get_cache(cache, last'.key))) =>
             /\ is_loaded(chat') = is_loaded(chat)
             /\ current_infer' = current_infer
             /\ cache' = cache
             /\ calls' = calls
             /\ IF last'.stream
                THEN /\ Len(gens') = Len(gens) + 1
                     /\ SubSeq(gens', 1, Len(gens)) = gens
                     /\ gens'[Len(gens')].kind = "hit"
                     /\ gens'[Len(gens')].buff = get_cache(cache, last'.key)
                     /\ gens'[Len(gens')].yielded = <<>>
                ELSE /\ gens' = gens
                     /\ last'.ret = get_cache(cache, last'.key)
       /\ \A n \in Gens : (gens[n].kind = "hit" /\ last'.op = "next" /\ last'.gen = n) =>
             /\ is_loaded(chat') = is_loaded(chat)
             /\ current_infer' = current_infer
             /\ cache' = cache
             /\ calls' = calls
             /\ IF Len(gens[n].yielded) = 0
                THEN gens'[n].yielded = <<Val(gens[n].buff)>> /\ last'.ret = gens[n].buff
                ELSE gens'[n].yielded = gens[n].yielded /\ gens'[n].pc = "done" /\ IsNone(last'.ret)]_vars

\* a streaming hit on a model that was unloaded after the miss that filled the
\* cache
C17_Witness ==
    /\ ~is_loaded(chat)
    /\ last.op = "generate" /\ last.hit /\ last.stream
    /\ gens[last.gen].kind = "hit" /\ gens[last.gen].pc = "created"
    /\ current_infer # 0 /\ current_infer # last.gen
    /\ gens[last.gen].buff = get_cache(cache, last.key)

\* C19: every failure of the two endpoints reaches the caller as an
\* HTTPException: batch_size < 1, empty ssml or a format other than mp3/wav
\* gives status 400 before an SSMLHandler is constructed or synthesis started;
\* an HTTPException raised inside is passed on unchanged; any other exception
\* becomes status 500 with the exception's message as detail.
C19_FailuresAreHTTPExceptions ==
    ~IsNone(outp) =>
        LET req == Val(inp)
            res == Val(outp)
            invalid == req.batch_size < 1 \/ req.ssml = <<>> \/ req.format \notin {"mp3", "wav"}
            inner == req.collab.exc
        IN
        /\ res.kind \in {"HTTPException", "StreamingResponse", "dict"}
        /\ (req.ep = "ssml" /\ invalid) =>
              res.kind = "HTTPException" /\ res.status_code = 400 /\ ~res.constructed /\ ~res.started
        /\ (res.started /\ ~IsNone(inner)) \/ (res.constructed /\ req.collab.stage = "construct") =>
              IF Val(inner).kind = "HTTPException"
              THEN /\ res.kind = "HTTPException"
                   /\ res.status_code = Val(inner).status_code
                   /\ res.detail = Val(inner).detail
              ELSE /\ res.kind = "HTTPException"
                   /\ res.status_code = 500
                   /\ res.detail = Val(inner).detail
        /\ (req.ep = "refine" /\ ~IsNone(inner)) => res.kind = "HTTPException"

C19_Witness ==
    /\ ~IsNone(outp)
    /\ Val(inp).ep = "ssml"
    /\ Val(inp).batch_size = 4 /\ Val(inp).spliter_thr = 100 /\ Val(inp).format = "wav"
    /\ Val(inp).collab.stage = "run"
    /\ Val(Val(inp).collab.exc).kind = "RuntimeError"
    /\ Val(outp).kind = "HTTPException" /\ Val(outp).status_code = 500 /\ Val(outp).detail = "boom"
    /\ Val(outp).started

\* C20: every request to the SSML endpoint with spliter_thr <= 50, exactly 50
\* included, is rejected with status 400 (with the splitter message when the
\* batch size is valid) and starts no synthesis.
C20_SpliterAtMost50Rejected ==
    (~IsNone(outp) /\ Val(inp).ep = "ssml" /\ Val(inp).spliter_thr <= 50) =>
        /\ Val(outp).kind = "HTTPException"
        /\ Val(outp).status_code = 400
        /\ Val(inp).batch_size >= 1 => Val(outp).detail = "Spliter threshold must be greater than 50."
        /\ ~Val(outp).constructed /\ ~Val(outp).started

\* summed text length of the text segments of a list
RECURSIVE TextSum(_)
TextSum(l) ==
    IF Len(l) = 0 THEN 0
    ELSE TextSum(SubSeq(l, 1, Len(l) - 1)) + (IF l[Len(l)].kind = "break" THEN 0 ELSE Len(l[Len(l)].text))

\* C21, as stated for every total_max: segments_length_limit returns the
\* longest prefix of the input whose text segments have a total length
\* <= total_max: a prefix in input order, breaks inside it kept and not
\* counted, the summed text length within total_max, and nothing from the
\* first text segment that would exceed the limit on (no later shorter
\* segment, no later break).
C21_LongestPrefixAnyLimit ==
    ~IsNone(outp) =>
        LET s == Val(inp).segments
            m == Val(inp).total_max
            r == Val(outp)
        IN
        /\ Len(r) <= Len(s)
        /\ r = SubSeq(s, 1, Len(r))
        /\ TextSum(r) <= m
        /\ \A n \in 0..Len(s) : TextSum(SubSeq(s, 1, n)) <= m => n <= Len(r)
        /\ Len(r) < Len(s) =>
              /\ s[Len(r) + 1].kind = "segment"
              /\ TextSum(r) + Len(s[Len(r) + 1].text) > m

\* C21, amended: the result is always the prefix of the input that ends before
\* the first text segment taking the running text total above total_max
\* (breaks kept and not counted, nothing after that segment returned); for
\* total_max >= 0 it is the longest prefix whose text total is <= total_max;
\* for total_max < 0 no prefix has such a total and the result is the breaks
\* that lead the input, with text total 0.
C21_LongestPrefixWithinLimit ==
    ~IsNone(outp) =>
        LET s == Val(inp).segments
            m == Val(inp).total_max
            r == Val(outp)
        IN
        /\ Len(r) <= Len(s)
        /\ r = SubSeq(s, 1, Len(r))
        /\ m >= 0 => TextSum(r) <= m
        /\ m < 0 => \A i \in 1..Len(r) : r[i].kind = "break"
        /\ \A n \in 0..Len(s) : TextSum(SubSeq(s, 1, n)) <= m => n <= Len(r)
        /\ Len(r) < Len(s) =>
              /\ s[Len(r) + 1].kind = "segment"
              /\ TextSum(r) + Len(s[Len(r) + 1].text) > m

\* a leading break is kept, the text that does not fit ends the result, and
\* the shorter text after it, which would fit, is not returned
C21_Witness ==
    /\ ~IsNone(outp)
    /\ Len(Val(inp).segments) = 3
    /\ Val(inp).segments[1].kind = "break"
    /\ Len(Val(inp).segments[2].text) = 2
    /\ Val(inp).segments[3].kind = "segment" /\ Len(Val(inp).segments[3].text) = 1
    /\ Val(inp).total_max = 1
    /\ Val(outp) = <<Val(inp).segments[1]>>

====
